---- MODULE Spec2Model ----
(***************************************************************************)
(* Model of the cost-of-living ETL job (app.py): the S3 extractor, the     *)
(* three pandas transformers, the joins against the Snowflake dimension    *)
(* tables, the projection and the append-only load, sequenced by main.     *)
(*                                                                         *)
(* A DataFrame is a record [columns, rows]: columns is the set of column   *)
(* labels, rows the sequence of rows, each a function from columns to      *)
(* cells. A cell is [t, s, n]: t is the value's Python type ("str", "int", *)
(* "float", "date", "nan"), s the text of a str, n the number of an int,   *)
(* a float or a date (a day number). Text is a TLA+ string, so substring   *)
(* tests, concatenation and character replacement are computed on the      *)
(* characters. Amounts in the modelled files are whole numbers.            *)
(***************************************************************************)
EXTENDS Integers, Sequences, FiniteSets, TLC

VARIABLES
    s3,             \* the bucket: sequence of [Key, Body] in listing order
    dim_location,   \* warehouse table dim_location restricted to state = 'DE'
    dim_date,       \* warehouse table dim_date
    fact,           \* the three destination tables of the warehouse
    today,          \* the calendar date date.today() returns (a day number)
    extract_date,   \* event["extractDate"]
    pc,             \* position of main
    results,        \* how every finished invocation of main ended
    raw,            \* the DataFrame objects get_df_from_s3 returned
    location_df,    \* result of the dim_location query
    dim_date_df,    \* result of the dim_date query
    canon,          \* the transformers' return values
    merged,         \* *_merged_df
    final           \* *_final_df

vars == <<s3, dim_location, dim_date, fact, today, extract_date, pc,
          results, raw, location_df, dim_date_df, canon, merged, final>>

----------------------------------------------------------------------------
(* Bounds of the model *)

MaxDay == 2         \* the clock runs over the days 1..MaxDay
MaxRuns == 2        \* invocations of main in one behaviour
MaxRows == 2        \* data rows of a generated CSV object
MaxLoc == 2         \* rows of a generated dim_location table

----------------------------------------------------------------------------
(* Text *)

\* Python: t in s
Contains(s, t) ==
    \E i \in 1..(Len(s) - Len(t) + 1) : SubSeq(s, i, i + Len(t) - 1) = t

\* Python: s.startswith(p), the Prefix filter of list_objects
StartsWith(s, p) == Len(p) <= Len(s) /\ SubSeq(s, 1, Len(p)) = p

RECURSIVE Remove(_, _)
\* Python: s.replace(c, "") for a one-character c
Remove(s, c) ==
    IF s = "" THEN ""
    ELSE LET h == SubSeq(s, 1, 1)
             r == Remove(SubSeq(s, 2, Len(s)), c)
         IN IF h = c THEN r ELSE h \o r

DigitChars == "0123456789"

IsDigit(c) == \E d \in 1..10 : SubSeq(DigitChars, d, d) = c

DigitValue(c) == (CHOOSE d \in 1..10 : SubSeq(DigitChars, d, d) = c) - 1

\* the text is a decimal literal int() and float() accept
IsNumeric(s) == Len(s) > 0 /\ \A i \in 1..Len(s) : IsDigit(SubSeq(s, i, i))

RECURSIVE ParseNumber(_)
ParseNumber(s) ==
    IF s = "" THEN 0
    ELSE 10 * ParseNumber(SubSeq(s, 1, Len(s) - 1))
         + DigitValue(SubSeq(s, Len(s), Len(s)))

----------------------------------------------------------------------------
(* Cells and DataFrames *)

StrCell(s) == [t |-> "str", s |-> s, n |-> 0]
IntCell(n) == [t |-> "int", s |-> "", n |-> n]
FloatCell(n) == [t |-> "float", s |-> "", n |-> n]
DateCell(d) == [t |-> "date", s |-> "", n |-> d]
NaN == [t |-> "nan", s |-> "", n |-> 0]

\* pd.DataFrame(): no columns, no rows; also the value of an unbound name
EmptyFrame == [columns |-> {}, rows |-> <<>>]

Range(f) == {f[i] : i \in DOMAIN f}

RECURSIVE Flatten(_)
\* concatenation of a sequence of sequences
Flatten(ss) == IF ss = <<>> THEN <<>> ELSE Head(ss) \o Flatten(Tail(ss))

\* pd.read_csv of one object's text: Body is the header and the records'
\* fields; a column whose every field is an integer literal is parsed as
\* int64, any other column stays text
read_csv(Body) ==
    LET n == Len(Body.header)
        idx(c) == CHOOSE i \in 1..n : Body.header[i] = c
        isInt(c) == /\ Body.records # <<>>
                    /\ \A r \in 1..Len(Body.records) :
                           IsNumeric(Body.records[r][idx(c)])
        cell(r, c) == IF isInt(c) THEN IntCell(ParseNumber(Body.records[r][idx(c)]))
                      ELSE StrCell(Body.records[r][idx(c)])
    IN [columns |-> Range(Body.header),
        rows |-> [r \in 1..Len(Body.records) |->
                     [c \in Range(Body.header) |-> cell(r, c)]]]

\* pd.concat of a non-empty list: the rows of every frame in order, over the
\* union of the columns, NaN where a frame has no such column
concat(dfs) ==
    LET cols == UNION {dfs[i].columns : i \in 1..Len(dfs)}
        widen(df) == [r \in 1..Len(df.rows) |->
                         [c \in cols |-> IF c \in df.columns THEN df.rows[r][c]
                                         ELSE NaN]]
    IN [columns |-> cols,
        rows |-> Flatten([i \in 1..Len(dfs) |-> widen(dfs[i])])]

Prefix == "real_estate/cost_of_living/"

\* get_df_from_s3 as if an empty selection gave an empty frame
get_df_from_s3_empty(bucket, category, date) ==
    LET keys == SelectSeq(bucket, LAMBDA o : /\ StartsWith(o.Key, Prefix \o date)
                                             /\ Contains(o.Key, category))
    IN IF keys = <<>> THEN [err |-> "", df |-> EmptyFrame]
       ELSE [err |-> "", df |-> concat([i \in 1..Len(keys) |-> read_csv(keys[i].Body)])]

\* get_df_from_s3: the listing under the date prefix, the keys containing
\* the category, the objects read and concatenated. A listing with no key
\* has no "Contents" entry (KeyError); pd.concat of an empty list raises
\* ValueError.
get_df_from_s3(bucket, category, date) ==
    LET Contents == SelectSeq(bucket, LAMBDA o : StartsWith(o.Key, Prefix \o date))
        keys == SelectSeq(Contents, LAMBDA o : Contains(o.Key, category))
        frames == [i \in 1..Len(keys) |-> read_csv(keys[i].Body)]
    IN IF Contents = <<>> THEN [err |-> "KeyError", df |-> EmptyFrame]
       ELSE IF keys = <<>> THEN [err |-> "ValueError", df |-> EmptyFrame]
       ELSE [err |-> "", df |-> concat(frames)]

----------------------------------------------------------------------------
(* DataFrame operations used by the transformers *)

\* df.rename(columns=map): a new frame, labels absent from df are ignored
rename(df, map) ==
    LET new(c) == IF c \in DOMAIN map THEN map[c] ELSE c
        cols == {new(c) : c \in df.columns}
        old(c2) == CHOOSE c \in df.columns : new(c) = c2
    IN [columns |-> cols,
        rows |-> [r \in 1..Len(df.rows) |-> [c2 \in cols |-> df.rows[r][old(c2)]]]]

\* df[c], df.c: the values of column c, one for each row
Series(df, c) == [r \in 1..Len(df.rows) |-> df.rows[r][c]]

\* df[c] = values, df.c = values: the column is replaced, or added
assign(df, c, values) ==
    [columns |-> df.columns \cup {c},
     rows |-> [r \in 1..Len(df.rows) |->
                  [k \in df.columns \cup {c} |->
                      IF k = c THEN values[r] ELSE df.rows[r][k]]]]

\* df[c] = value: the same value in every row
assign_scalar(df, c, value) == assign(df, c, [r \in 1..Len(df.rows) |-> value])

\* df[cols]: the frame restricted to the listed columns
project(df, cols) ==
    [columns |-> cols,
     rows |-> [r \in 1..Len(df.rows) |-> [c \in cols |-> df.rows[r][c]]]]

\* the values that occur in column c
Column(df, c) == Range(Series(df, c))

\* int(x) succeeds
CanInt(x) == x.t \in {"int", "float"} \/ (x.t = "str" /\ IsNumeric(x.s))
\* int(x)
AsInt(x) == IF x.t = "str" THEN IntCell(ParseNumber(x.s)) ELSE IntCell(x.n)
\* Series.astype(int)
astype_int(series) == [r \in DOMAIN series |-> AsInt(series[r])]

\* float(x)
AsFloat(x) ==
    IF x.t = "str" THEN FloatCell(ParseNumber(x.s))
    ELSE IF x.t = "nan" THEN NaN ELSE FloatCell(x.n)
\* Series.astype(float)
astype_float(series) == [r \in DOMAIN series |-> AsFloat(series[r])]

CountySuffix == " COUNTY"

\* Series.apply(lambda x: x + " COUNTY")
AddCounty(series) == [r \in DOMAIN series |-> StrCell(series[r].s \o CountySuffix)]

\* Series.apply(lambda x: x.replace(",", ""))
StripCommas(series) == [r \in DOMAIN series |-> StrCell(Remove(series[r].s, ","))]

\* what a call leaves: the exception ("" for none), the value returned and
\* the argument object as it is after the call
Raise(e, arg) == [err |-> e, out |-> EmptyFrame, arg |-> arg]
Return(out, arg) == [err |-> "", out |-> out, arg |-> arg]

WageRename ==
    [num_children |-> "NUMBER_OF_CHILDREN", num_adults |-> "NUMBER_OF_ADULTS",
     county |-> "COUNTY", num_working |-> "NUMBER_OF_WORKING_ADULTS",
     usd_amount |-> "HOURLY_WAGE"]

\* the column list of line 55 without the wage column
WageColsShort ==
    {"COUNTY", "NUMBER_OF_ADULTS", "NUMBER_OF_CHILDREN", "NUMBER_OF_WORKING_ADULTS"}

WageCols ==
    {"COUNTY", "NUMBER_OF_ADULTS", "NUMBER_OF_CHILDREN",
     "NUMBER_OF_WORKING_ADULTS", "HOURLY_WAGE"}

\* line 43 with == "LIVING" in place of str.contains
LivingRowsExact(df) ==
    [columns |-> df.columns,
     rows |-> SelectSeq(df.rows, LAMBDA row : row["wage_level"].s = "LIVING")]

\* living_wage_df[living_wage_df["wage_level"].str.contains("LIVING")]:
\* a new frame holding the rows whose wage_level has the substring
LivingRows(df) ==
    [columns |-> df.columns,
     rows |-> SelectSeq(df.rows, LAMBDA row : Contains(row["wage_level"].s, "LIVING"))]

\* transform_living_wage_df, called while date.today() is d
transform_living_wage_df(living_wage_df, d) ==
    LET arg == living_wage_df
        f == LivingRows(arg)
        rn == rename(f, WageRename)
        ch == assign(rn, "NUMBER_OF_CHILDREN", astype_int(Series(rn, "NUMBER_OF_CHILDREN")))
        co == assign(ch, "COUNTY", AddCounty(Series(ch, "COUNTY")))
        pr == project(co, WageCols)
        out == assign_scalar(pr, "SNAPSHOT_DATE", DateCell(d))
    IN IF "wage_level" \notin arg.columns THEN Raise("KeyError", arg)
       ELSE IF arg.rows # <<>> /\ \A x \in Column(arg, "wage_level") : x.t # "str"
            THEN Raise("AttributeError", arg)
       ELSE IF \E x \in Column(arg, "wage_level") : x.t # "str"
            THEN Raise("ValueError", arg)
       ELSE IF "NUMBER_OF_CHILDREN" \notin rn.columns THEN Raise("AttributeError", arg)
       ELSE IF \E x \in Column(rn, "NUMBER_OF_CHILDREN") : ~CanInt(x)
            THEN Raise("ValueError", arg)
       ELSE IF "COUNTY" \notin ch.columns THEN Raise("AttributeError", arg)
       ELSE IF \E x \in Column(ch, "COUNTY") : x.t # "str" THEN Raise("TypeError", arg)
       ELSE IF ~(WageCols \subseteq co.columns) THEN Raise("KeyError", arg)
       ELSE Return(out, arg)

ExpenseRename ==
    [num_children |-> "NUMBER_OF_CHILDREN", num_adults |-> "NUMBER_OF_ADULTS",
     num_working |-> "NUMBER_OF_WORKING_ADULTS", expense_category |-> "CATEGORY",
     usd_amount |-> "AMOUNT", county |-> "COUNTY"]

\* annual_expense_df.usd_amount = annual_expense_df.usd_amount.apply(
\*     lambda x: x.replace(",", "")).astype(float)
\* the assignment stores the new column in the frame it was read from
StripAmount(df) ==
    assign(df, "usd_amount", astype_float(StripCommas(Series(df, "usd_amount"))))

\* transform_annual_expense_df, called while date.today() is d
transform_annual_expense_df(annual_expense_df, d) ==
    LET arg == annual_expense_df
        mut == StripAmount(arg)
        rn == rename(mut, ExpenseRename)
        ch == assign(rn, "NUMBER_OF_CHILDREN", astype_int(Series(rn, "NUMBER_OF_CHILDREN")))
        co == assign(ch, "COUNTY", AddCounty(Series(ch, "COUNTY")))
        out == assign_scalar(co, "SNAPSHOT_DATE", DateCell(d))
    IN IF "usd_amount" \notin arg.columns THEN Raise("AttributeError", arg)
       ELSE IF \E x \in Column(arg, "usd_amount") : x.t # "str"
            THEN Raise("AttributeError", arg)
       ELSE IF \E x \in Column(arg, "usd_amount") : ~IsNumeric(Remove(x.s, ","))
            THEN Raise("ValueError", arg)
       ELSE IF "NUMBER_OF_CHILDREN" \notin rn.columns THEN Raise("AttributeError", mut)
       ELSE IF \E x \in Column(rn, "NUMBER_OF_CHILDREN") : ~CanInt(x)
            THEN Raise("ValueError", mut)
       ELSE IF "COUNTY" \notin ch.columns THEN Raise("AttributeError", mut)
       ELSE IF \E x \in Column(ch, "COUNTY") : x.t # "str" THEN Raise("TypeError", mut)
       ELSE Return(out, mut)

SalaryRename ==
    [occupational_area |-> "OCCUPATION", typical_annual_salary |-> "SALARY",
     county |-> "COUNTY"]

\* transform_typical_annual_salary_df, called while date.today() is d
transform_typical_annual_salary_df(typical_annual_salary_df, d) ==
    LET arg == typical_annual_salary_df
        rn == rename(arg, SalaryRename)
        sd == assign_scalar(rn, "SNAPSHOT_DATE", DateCell(d))
        out == assign(sd, "COUNTY", AddCounty(Series(sd, "COUNTY")))
    IN IF "COUNTY" \notin sd.columns THEN Raise("AttributeError", arg)
       ELSE IF \E x \in Column(sd, "COUNTY") : x.t # "str" THEN Raise("TypeError", arg)
       ELSE Return(out, arg)

----------------------------------------------------------------------------
(* Warehouse queries and joins *)

\* pd.read_sql("SELECT location_id, county FROM dim_location WHERE state = 'DE'")
read_location(table) ==
    LET de == SelectSeq(table, LAMBDA r : r.state = "DE")
    IN [columns |-> {"LOCATION_ID", "COUNTY"},
        rows |-> [i \in 1..Len(de) |->
                     [LOCATION_ID |-> IntCell(de[i].LOCATION_ID),
                      COUNTY |-> StrCell(de[i].COUNTY)]]]

\* pd.read_sql(f"SELECT date_id, date FROM dim_date WHERE date = '{date.today()}'")
\* issued while date.today() is d
read_date(table, d) ==
    LET hit == SelectSeq(table, LAMBDA r : r.DATE = d)
    IN [columns |-> {"DATE_ID", "DATE"},
        rows |-> [i \in 1..Len(hit) |->
                     [DATE_ID |-> IntCell(hit[i].DATE_ID), DATE |-> DateCell(hit[i].DATE)]]]

\* a join that pairs every row of left with every row of right
MatchesAll(row, right, left_on, right_on) == right.rows

\* the rows of right whose key equals the key of a row of left
Matches(row, right, left_on, right_on) ==
    SelectSeq(right.rows, LAMBDA r2 : r2[right_on] = row[left_on])

\* the merge with how="left": a left row without a match is kept, with NaN
\* in the columns of right
merge_left(left, right, left_on, right_on) ==
    LET cols == left.columns \cup right.columns
        both(row, r2) == [c \in cols |-> IF c \in left.columns THEN row[c] ELSE r2[c]]
        alone(row) == [c \in cols |-> IF c \in left.columns THEN row[c] ELSE NaN]
        pairs(row) ==
            LET m == SelectSeq(right.rows, LAMBDA r2 : r2[right_on] = row[left_on])
            IN IF m = <<>> THEN <<alone(row)>> ELSE [j \in 1..Len(m) |-> both(row, m[j])]
    IN [columns |-> cols,
        rows |-> Flatten([i \in 1..Len(left.rows) |-> pairs(left.rows[i])])]

\* left.merge(right, left_on=..., right_on=..., how="inner"): one row for every
\* pair of a left row and a right row with equal keys, in the order of left;
\* the two frames share no column but the key
merge(left, right, left_on, right_on) ==
    LET cols == left.columns \cup right.columns
        both(row, r2) == [c \in cols |-> IF c \in left.columns THEN row[c] ELSE r2[c]]
        pairs(row) == LET m == Matches(row, right, left_on, right_on)
                      IN [j \in 1..Len(m) |-> both(row, m[j])]
    IN [columns |-> cols,
        rows |-> Flatten([i \in 1..Len(left.rows) |-> pairs(left.rows[i])])]

annual_expense_keep_cols ==
    {"CATEGORY", "NUMBER_OF_CHILDREN", "AMOUNT", "NUMBER_OF_ADULTS",
     "NUMBER_OF_WORKING_ADULTS", "SNAPSHOT_DATE_ID", "LOCATION_ID"}

living_wage_keep_cols ==
    {"NUMBER_OF_ADULTS", "NUMBER_OF_CHILDREN", "NUMBER_OF_WORKING_ADULTS",
     "HOURLY_WAGE", "SNAPSHOT_DATE_ID", "LOCATION_ID"}

typical_annual_salary_keep_cols ==
    {"OCCUPATION", "SALARY", "SNAPSHOT_DATE_ID", "LOCATION_ID"}

\* a load that replaces the table's rows
write_pandas_overwrite(table, df) == df.rows

\* write_pandas(conn, df, table): the rows of df are appended to the table
write_pandas(table, df) == table \o df.rows

----------------------------------------------------------------------------
(* main, one action per statement group *)

Datasets == {"living_wage", "annual_expense", "typical_annual_salary"}

Unbound == [d \in Datasets |-> EmptyFrame]

\* how an invocation ended: the statement it ended at and the exception it
\* raised there; raised = "" is the return of {"statusCode": 200}
Returned == [at |-> "return", raised |-> ""]

\* the statement at pc completed; control moves to next
Goto(next) == pc' = next /\ results' = results

\* an exception that is swallowed: main goes on to its return statement
FailContinues(e) == pc' = "return" /\ results' = results

\* the statement at pc raised e: nothing catches it, main ends
Fail(e) == pc' = "failed" /\ results' = Append(results, [at |-> pc, raised |-> e])

\* the ways a call to S3 or to Snowflake can end by itself
S3Outcome == {"", "ClientError"}
SnowflakeOutcome == {"", "DatabaseError"}

\* lines 117-132: the S3 client, the Snowflake connection, event["extractDate"]
Connect ==
    /\ pc = "connect"
    /\ \E io \in SnowflakeOutcome : IF io # "" THEN Fail(io) ELSE Goto("extract_living_wage")
    /\ UNCHANGED <<s3, dim_location, dim_date, fact, today, extract_date, raw,
                   location_df, dim_date_df, canon, merged, final>>

\* lines 135-137, one call of get_df_from_s3 each
Extract(at, dataset, category, next) ==
    /\ pc = at
    /\ \E io \in S3Outcome :
         LET got == get_df_from_s3(s3, category, extract_date)
             e == IF io # "" THEN io ELSE got.err
         IN IF e # "" THEN Fail(e) /\ raw' = raw
            ELSE Goto(next) /\ raw' = [raw EXCEPT ![dataset] = got.df]
    /\ UNCHANGED <<s3, dim_location, dim_date, fact, today, extract_date,
                   location_df, dim_date_df, canon, merged, final>>

ExtractLivingWage ==
    Extract("extract_living_wage", "living_wage", "living_wage", "extract_expenses")

ExtractExpenses ==
    Extract("extract_expenses", "annual_expense", "expenses", "extract_typical_salaries")

ExtractTypicalSalaries ==
    Extract("extract_typical_salaries", "typical_annual_salary", "typical_salaries",
            "read_location")

\* line 140
ReadLocation ==
    /\ pc = "read_location"
    /\ \E io \in SnowflakeOutcome :
         IF io # "" THEN Fail(io) /\ location_df' = location_df
         ELSE Goto("read_date") /\ location_df' = read_location(dim_location)
    /\ UNCHANGED <<s3, dim_location, dim_date, fact, today, extract_date, raw,
                   dim_date_df, canon, merged, final>>

\* line 143
ReadDate ==
    /\ pc = "read_date"
    /\ \E io \in SnowflakeOutcome :
         IF io # "" THEN Fail(io) /\ dim_date_df' = dim_date_df
         ELSE Goto("transform_living_wage") /\ dim_date_df' = read_date(dim_date, today)
    /\ UNCHANGED <<s3, dim_location, dim_date, fact, today, extract_date, raw,
                   location_df, canon, merged, final>>

\* lines 146-148: res is what the call of the transformer leaves
Transform(at, dataset, res, next) ==
    /\ pc = at
    /\ raw' = [raw EXCEPT ![dataset] = res.arg]
    /\ IF res.err # "" THEN Fail(res.err) /\ canon' = canon
       ELSE Goto(next) /\ canon' = [canon EXCEPT ![dataset] = res.out]
    /\ UNCHANGED <<s3, dim_location, dim_date, fact, today, extract_date,
                   location_df, dim_date_df, merged, final>>

TransformLivingWage ==
    Transform("transform_living_wage", "living_wage",
              transform_living_wage_df(raw["living_wage"], today),
              "transform_annual_expense")

TransformAnnualExpense ==
    Transform("transform_annual_expense", "annual_expense",
              transform_annual_expense_df(raw["annual_expense"], today),
              "transform_typical_annual_salary")

TransformTypicalAnnualSalary ==
    Transform("transform_typical_annual_salary", "typical_annual_salary",
              transform_typical_annual_salary_df(raw["typical_annual_salary"], today),
              "merge_location")

\* lines 151-153
MergeLocation ==
    /\ pc = "merge_location"
    /\ Goto("merge_date")
    /\ merged' = [d \in Datasets |-> merge(canon[d], location_df, "COUNTY", "COUNTY")]
    /\ UNCHANGED <<s3, dim_location, dim_date, fact, today, extract_date, raw,
                   location_df, dim_date_df, canon, final>>

\* lines 156-164
MergeDate ==
    /\ pc = "merge_date"
    /\ Goto("rename")
    /\ final' = [d \in Datasets |-> merge(merged[d], dim_date_df, "SNAPSHOT_DATE", "DATE")]
    /\ UNCHANGED <<s3, dim_location, dim_date, fact, today, extract_date, raw,
                   location_df, dim_date_df, canon, merged>>

\* lines 167-169
Rename ==
    /\ pc = "rename"
    /\ Goto("filter")
    /\ final' = [d \in Datasets |-> rename(final[d], [DATE_ID |-> "SNAPSHOT_DATE_ID"])]
    /\ UNCHANGED <<s3, dim_location, dim_date, fact, today, extract_date, raw,
                   location_df, dim_date_df, canon, merged>>

\* lines 172-192: a keep column absent from its frame raises KeyError
Filter ==
    /\ pc = "filter"
    /\ IF /\ annual_expense_keep_cols \subseteq final["annual_expense"].columns
          /\ living_wage_keep_cols \subseteq final["living_wage"].columns
          /\ typical_annual_salary_keep_cols \subseteq final["typical_annual_salary"].columns
       THEN /\ Goto("load_annual_expense")
            /\ final' = [annual_expense |->
                             project(final["annual_expense"], annual_expense_keep_cols),
                         living_wage |->
                             project(final["living_wage"], living_wage_keep_cols),
                         typical_annual_salary |->
                             project(final["typical_annual_salary"],
                                     typical_annual_salary_keep_cols)]
       ELSE Fail("KeyError") /\ final' = final
    /\ UNCHANGED <<s3, dim_location, dim_date, fact, today, extract_date, raw,
                   location_df, dim_date_df, canon, merged>>

\* a load whose failure rolls back the rows the warehouse holds
LoadRollsBack(at, dataset, table, next) ==
    /\ pc = at
    /\ \E io \in {"", "DatabaseError"} :
         IF io # ""
         THEN /\ pc' = "failed" /\ results' = Append(results, [at |-> pc, raised |-> io])
              /\ fact' = [t \in DOMAIN fact |-> <<>>]
         ELSE /\ pc' = next /\ results' = results
              /\ fact' = [fact EXCEPT ![table] = fact[table] \o final[dataset].rows]
    /\ UNCHANGED <<s3, dim_location, dim_date, today, extract_date, raw,
                   location_df, dim_date_df, canon, merged, final>>

\* lines 195-197, one call of write_pandas each
Load(at, dataset, table, next) ==
    /\ pc = at
    /\ \E io \in SnowflakeOutcome :
         IF io # "" THEN Fail(io) /\ fact' = fact
         ELSE /\ Goto(next)
              /\ fact' = [fact EXCEPT ![table] = write_pandas(fact[table], final[dataset])]
    /\ UNCHANGED <<s3, dim_location, dim_date, today, extract_date, raw,
                   location_df, dim_date_df, canon, merged, final>>

LoadAnnualExpense ==
    Load("load_annual_expense", "annual_expense", "FACT_ANNUAL_EXPENSE", "load_living_wage")

LoadLivingWage ==
    Load("load_living_wage", "living_wage", "FACT_LIVING_WAGE", "load_typical_annual_salary")

LoadTypicalAnnualSalary ==
    Load("load_typical_annual_salary", "typical_annual_salary",
         "FACT_TYPICAL_ANNUAL_SALARY", "return")

\* line 199
ReturnStatus ==
    /\ pc = "return"
    /\ pc' = "done"
    /\ results' = Append(results, Returned)
    /\ UNCHANGED <<s3, dim_location, dim_date, fact, today, extract_date, raw,
                   location_df, dim_date_df, canon, merged, final>>

\* line 205 / the Lambda runtime: main is invoked again with the same event;
\* the locals of the new invocation are unbound
Invoke ==
    /\ pc \in {"done", "failed"}
    /\ Len(results) < MaxRuns
    /\ pc' = "connect"
    /\ raw' = Unbound /\ canon' = Unbound /\ merged' = Unbound /\ final' = Unbound
    /\ location_df' = EmptyFrame /\ dim_date_df' = EmptyFrame
    /\ UNCHANGED <<s3, dim_location, dim_date, fact, today, extract_date, results>>

\* midnight passes: date.today() returns the next day from now on
Tick ==
    /\ today < MaxDay
    /\ today' = today + 1
    /\ UNCHANGED <<s3, dim_location, dim_date, fact, extract_date, pc, results, raw,
                   location_df, dim_date_df, canon, merged, final>>

----------------------------------------------------------------------------
(* Inputs: the objects of the bucket and the dimension tables *)

Key(date, name) == Prefix \o date \o "/" \o name

Day1 == "2023-05-01"
Day2 == "2023-05-02"

WageHeader ==
    <<"county", "num_adults", "num_children", "num_working", "usd_amount", "wage_level">>
WageRecord(county, level) == <<county, "1", "2", "1", "12", level>>

ExpenseHeader ==
    <<"county", "expense_category", "num_adults", "num_children", "num_working",
      "usd_amount">>
ExpenseRecord(county, amount) == <<county, "housing", "1", "2", "1", amount>>

SalaryHeader == <<"county", "occupational_area", "typical_annual_salary">>
SalaryRecord(county) == <<county, "legal", "90,000">>

\* a file with one more column, state, after the expected ones
WithState(Body) ==
    [header |-> Append(Body.header, "state"),
     records |-> [r \in 1..Len(Body.records) |-> Append(Body.records[r], "DE")]]

\* a file without its first column, county
WithoutCounty(Body) ==
    [header |-> Tail(Body.header),
     records |-> [r \in 1..Len(Body.records) |-> Tail(Body.records[r])]]

SeqsUpTo(S, n) == UNION {[1..k -> S] : k \in 0..n}

Counties == {"KENT", "SUSSEX"}
WageLevels == {"LIVING_WAGE", "POVERTY_WAGE", "living_wage", "NON_LIVING"}
Amounts == {"1,234", "56", "1,2x"}

KentWage ==
    [header |-> WageHeader,
     records |-> <<WageRecord("KENT", "LIVING_WAGE"), WageRecord("KENT", "POVERTY_WAGE")>>]
SussexWage == [header |-> WageHeader, records |-> <<WageRecord("SUSSEX", "LIVING_WAGE")>>]
KentExpense == [header |-> ExpenseHeader, records |-> <<ExpenseRecord("KENT", "1,234")>>]
KentSalary == [header |-> SalaryHeader, records |-> <<SalaryRecord("KENT")>>]

\* expense file whose amounts have no thousands separator
PlainExpense == [header |-> ExpenseHeader, records |-> <<ExpenseRecord("KENT", "56")>>]
\* salary file without the occupational_area column
ShortSalary == [header |-> <<"county", "typical_annual_salary">>,
                records |-> <<<<"KENT", "90,000">>>>]

Obj(date, name, Body) == [Key |-> Key(date, name), Body |-> Body]

\* a bucket holding the given files of the three categories under Day1
Bucket(wage, expense, salary) ==
    <<Obj(Day1, "expenses_kent.csv", expense),
      Obj(Day1, "living_wage_kent.csv", wage),
      Obj(Day1, "typical_salaries_kent.csv", salary)>>

FullBucket ==
    <<Obj(Day1, "expenses_kent.csv", KentExpense),
      Obj(Day1, "living_wage_kent.csv", KentWage),
      Obj(Day1, "living_wage_sussex.csv", SussexWage),
      Obj(Day1, "typical_salaries_kent.csv", KentSalary)>>

Loc(id, county, state) == [LOCATION_ID |-> id, COUNTY |-> county, state |-> state]
Date(id, d) == [DATE_ID |-> id, DATE |-> d]

DeLocations == <<Loc(7, "KENT COUNTY", "DE"), Loc(8, "SUSSEX COUNTY", "DE"),
                 Loc(9, "KENT COUNTY", "MD")>>
AllDates == [d \in 1..MaxDay |-> Date(100 + d, d)]

\* the inputs of the driver's behaviours
MainBuckets ==
    {FullBucket,
     <<>>,
     SubSeq(FullBucket, 1, 3),
     Bucket(KentWage, PlainExpense, KentSalary),
     Bucket(SussexWage, KentExpense, ShortSalary)}
MainLocations ==
    {DeLocations,
     <<Loc(7, "KENT COUNTY", "DE"), Loc(9, "KENT COUNTY", "DE")>>,
     <<Loc(7, "Kent COUNTY", "DE")>>}
MainDates ==
    {AllDates, SubSeq(AllDates, 1, 1), <<Date(101, 1), Date(111, 1)>>}

EmptyFacts ==
    [FACT_ANNUAL_EXPENSE |-> <<>>, FACT_LIVING_WAGE |-> <<>>,
     FACT_TYPICAL_ANNUAL_SALARY |-> <<>>]

\* the process before the first invocation of main, destination tables empty
Start(bucket, locations, dates, date, day) ==
    /\ s3 = bucket
    /\ dim_location = locations
    /\ dim_date = dates
    /\ extract_date = date
    /\ today = day
    /\ fact = EmptyFacts
    /\ pc = "connect"
    /\ results = <<>>
    /\ raw = Unbound /\ canon = Unbound /\ merged = Unbound /\ final = Unbound
    /\ location_df = EmptyFrame /\ dim_date_df = EmptyFrame

Init ==
    \E b \in MainBuckets, l \in MainLocations, d \in MainDates :
        Start(b, l, d, Day1, 1)

\* one invocation of main
Step ==
    \/ Connect
    \/ ExtractLivingWage
    \/ ExtractExpenses
    \/ ExtractTypicalSalaries
    \/ ReadLocation
    \/ ReadDate
    \/ TransformLivingWage
    \/ TransformAnnualExpense
    \/ TransformTypicalAnnualSalary
    \/ MergeLocation
    \/ MergeDate
    \/ Rename
    \/ Filter
    \/ LoadAnnualExpense
    \/ LoadLivingWage
    \/ LoadTypicalAnnualSalary
    \/ ReturnStatus

Next == Step \/ Invoke \/ Tick

\* the driver: invocations of main, one after the other, while days pass
Spec == Init /\ [][Next]_vars

----------------------------------------------------------------------------
(* Single invocations of main over wider families of inputs *)

RECURSIVE Pick(_, _)
\* the objects of pool whose index is kept, in listing order
Pick(pool, keep) ==
    IF pool = <<>> THEN <<>>
    ELSE LET rest == Pick(SubSeq(pool, 1, Len(pool) - 1), keep)
         IN IF keep[Len(pool)] THEN Append(rest, pool[Len(pool)]) ELSE rest

ObjectPool ==
    <<Obj(Day1, "archive/living_wage_old.csv", WithState(SussexWage)),
      Obj(Day1, "expenses_kent.csv", KentExpense),
      Obj(Day1, "living_wage_kent.csv", KentWage),
      Obj(Day1, "typical_salaries_kent.csv", KentSalary),
      Obj(Day2, "living_wage_kent.csv", KentWage),
      Obj(Day2, "readme.txt", KentSalary)>>

\* every bucket made of objects of the pool, read for either date
InitExtract ==
    \E keep \in [1..Len(ObjectPool) -> BOOLEAN], date \in {Day1, Day2} :
        Start(Pick(ObjectPool, keep), DeLocations, AllDates, date, 1)

Variants(Body) == {Body, WithState(Body), WithoutCounty(Body)}

WageBodies ==
    UNION {Variants([header |-> WageHeader,
                     records |-> [i \in 1..Len(rs) |-> WageRecord(rs[i][1], rs[i][2])]]) :
           rs \in SeqsUpTo(Counties \X WageLevels, MaxRows)}

ExpenseBodies ==
    UNION {Variants([header |-> ExpenseHeader,
                     records |-> [i \in 1..Len(rs) |-> ExpenseRecord("KENT", rs[i])]]) :
           rs \in SeqsUpTo(Amounts, MaxRows)}

SalaryBodies ==
    UNION {Variants([header |-> SalaryHeader,
                     records |-> [i \in 1..Len(rs) |-> SalaryRecord(rs[i])]]) :
           rs \in SeqsUpTo(Counties, MaxRows)}

\* the files of one category vary, the two others are the reference files
InitTransform ==
    \/ \E w \in WageBodies :
           Start(Bucket(w, KentExpense, KentSalary), DeLocations, AllDates, Day1, 1)
    \/ \E e \in ExpenseBodies :
           Start(Bucket(KentWage, e, KentSalary), DeLocations, AllDates, Day1, 1)
    \/ \E y \in SalaryBodies :
           Start(Bucket(KentWage, KentExpense, y), DeLocations, AllDates, Day1, 1)

LocationNames == {"KENT COUNTY", "Kent COUNTY", "SUSSEX COUNTY"}

\* dim_location tables: location_id is the table's key
LocationTables ==
    {[i \in 1..Len(rs) |-> Loc(6 + i, rs[i][1], rs[i][2])] :
         rs \in SeqsUpTo(LocationNames \X {"DE", "MD"}, MaxLoc)}

DateTables ==
    {AllDates, <<>>, SubSeq(AllDates, 1, 1), <<Date(101, 1), Date(111, 1)>>}

InitJoin ==
    \E l \in LocationTables, d \in DateTables, day \in 1..MaxDay :
        Start(FullBucket, l, d, Day1, day)

SpecExtract == InitExtract /\ [][Step]_vars
SpecTransform == InitTransform /\ [][Step]_vars
SpecJoin == InitJoin /\ [][Step]_vars

----------------------------------------------------------------------------
(* Vocabulary of the properties *)

StepOrder ==
    <<"connect", "extract_living_wage", "extract_expenses", "extract_typical_salaries",
      "read_location", "read_date", "transform_living_wage", "transform_annual_expense",
      "transform_typical_annual_salary", "merge_location", "merge_date", "rename",
      "filter", "load_annual_expense", "load_living_wage", "load_typical_annual_salary",
      "return", "done">>

Index(p) == CHOOSE i \in 1..Len(StepOrder) : StepOrder[i] = p

Last(q) == q[Len(q)]

\* the statement the current invocation is at, or raised at
Position == IF pc = "failed" THEN Last(results).at ELSE pc

\* the statement group has run to its end in the current invocation
Completed(step) == Index(Position) > Index(step)

IsPrefix(a, b) == Len(a) <= Len(b) /\ SubSeq(b, 1, Len(a)) = a
IsSuffix(a, b) == Len(a) <= Len(b) /\ SubSeq(b, Len(b) - Len(a) + 1, Len(b)) = a

TableOf ==
    [living_wage |-> "FACT_LIVING_WAGE", annual_expense |-> "FACT_ANNUAL_EXPENSE",
     typical_annual_salary |-> "FACT_TYPICAL_ANNUAL_SALARY"]

LoadOf ==
    [living_wage |-> "load_living_wage", annual_expense |-> "load_annual_expense",
     typical_annual_salary |-> "load_typical_annual_salary"]

Locals == <<raw, location_df, dim_date_df, canon, merged, final>>

----------------------------------------------------------------------------
(* C1: failure aborts the run *)

\* C1: a statement of main that raises ends the invocation: nothing of the
\* run is executed after it (the destination tables, the outcomes and the
\* locals stay as they are until main is invoked again), and statusCode 200
\* is returned only from the return statement, when the rows of the three
\* final datasets are the last rows of their destination tables.
C1_FailureAborts ==
    [][/\ pc = "failed" =>
             /\ pc' \in {"failed", "connect"}
             /\ pc' = "failed" => <<fact, results, Locals>>' = <<fact, results, Locals>>
       /\ (results' # results /\ Last(results').raised # "") => pc' = "failed"
       /\ (results' # results /\ Last(results') = Returned) =>
             /\ pc = "return" /\ pc' = "done"
             /\ \A d \in Datasets : IsSuffix(final[d].rows, fact[TableOf[d]])]_vars

\* C1 witness: a run ended by an exception of a load, after one load was done
C1_Witness ==
    /\ pc = "failed"
    /\ Last(results).at = "load_living_wage"
    /\ fact["FACT_ANNUAL_EXPENSE"] # <<>>
    /\ final["living_wage"].rows # <<>>

----------------------------------------------------------------------------
(* C8, C9: the load *)

\* the second invocation, after a first that returned, completes the load of d
SecondLoad(d) ==
    /\ Len(results) = 1 /\ results[1] = Returned
    /\ pc = LoadOf[d] /\ pc' \notin {pc, "failed"}

\* C8 as stated: no step removes or overwrites a row of a destination table,
\* and the load of the second of two completed runs leaves the table with
\* twice the rows the first run left.
C8_Original ==
    [][\A d \in Datasets :
          /\ IsPrefix(fact[TableOf[d]], fact'[TableOf[d]])
          /\ SecondLoad(d) => Len(fact'[TableOf[d]]) = 2 * Len(fact[TableOf[d]])]_vars

\* C8 amended: the rows double when the calendar date has not changed since
\* the first run began; the tables are append-only in every case.
C8_AppendOnly ==
    [][\A d \in Datasets :
          /\ IsPrefix(fact[TableOf[d]], fact'[TableOf[d]])
          /\ (SecondLoad(d) /\ today = 1) =>
                 Len(fact'[TableOf[d]]) = 2 * Len(fact[TableOf[d]])]_vars

\* C8 witness: two completed runs on one day, the wage table doubled
C8_Witness ==
    /\ results = <<Returned, Returned>>
    /\ today = 1
    /\ Len(fact["FACT_LIVING_WAGE"]) = 2 * Len(final["living_wage"].rows)
    /\ final["living_wage"].rows # <<>>

\* C9: a step that raises, and the time after it, leave the destination
\* tables as the completed loads left them: nothing is rolled back.
C9_NoRollback ==
    [][(pc = "failed" \/ pc' = "failed") => fact' = fact]_vars

\* C9 witness: a first run that failed with the expense table loaded and
\* the salary table not, although the run had salary rows to load
C9_Witness ==
    /\ pc = "failed"
    /\ Len(results) = 1
    /\ fact["FACT_ANNUAL_EXPENSE"] = final["annual_expense"].rows
    /\ fact["FACT_ANNUAL_EXPENSE"] # <<>>
    /\ final["typical_annual_salary"].rows # <<>>
    /\ fact["FACT_TYPICAL_ANNUAL_SALARY"] = <<>>

----------------------------------------------------------------------------
(* C10: the processing date *)

\* C10: every row the transformers stamped carries the date the dim_date
\* query was filtered on, and so, when dim_date holds a row for that date,
\* the date join keeps every row.
C10_OneProcessingDate ==
    dim_date_df.rows # <<>> =>
        /\ \A d \in Datasets : \A i \in 1..Len(canon[d].rows) :
               canon[d].rows[i]["SNAPSHOT_DATE"] = dim_date_df.rows[1]["DATE"]
        /\ Completed("merge_date") =>
               \A d \in Datasets : Len(final[d].rows) >= Len(merged[d].rows)

----------------------------------------------------------------------------
(* C2, C3: the joins *)

RECURSIVE Sum(_)
Sum(q) == IF q = <<>> THEN 0 ELSE Head(q) + Sum(Tail(q))

\* no two rows of the frame have the same value in column c
UniqueKey(df, c) ==
    \A i, j \in 1..Len(df.rows) : df.rows[i][c] = df.rows[j][c] => i = j

\* the number of rows of right with the key of each row of left, added up
Pairs(left, right, left_on, right_on) ==
    Sum([i \in 1..Len(left.rows) |->
            Cardinality({j \in 1..Len(right.rows) :
                            right.rows[j][right_on] = left.rows[i][left_on]})])

\* C2 as stated: neither join ever has more rows after than before.
C2_Original ==
    /\ Completed("merge_location") =>
           \A d \in Datasets : Len(merged[d].rows) <= Len(canon[d].rows)
    /\ Completed("merge_date") =>
           \A d \in Datasets : Len(final[d].rows) <= Len(merged[d].rows)

\* C2 amended: a join yields one row for every pair of an input row and a
\* dimension row with the same key; the count does not grow when no two rows
\* of the dimension table have the same key.
C2_JoinRowCount ==
    /\ Completed("merge_location") =>
           \A d \in Datasets :
               /\ Len(merged[d].rows) = Pairs(canon[d], location_df, "COUNTY", "COUNTY")
               /\ UniqueKey(location_df, "COUNTY") =>
                      Len(merged[d].rows) <= Len(canon[d].rows)
    /\ Completed("merge_date") =>
           \A d \in Datasets :
               /\ Len(final[d].rows) = Pairs(merged[d], dim_date_df, "SNAPSHOT_DATE", "DATE")
               /\ UniqueKey(dim_date_df, "DATE") =>
                      Len(final[d].rows) <= Len(merged[d].rows)

\* C2 witness: both joins done against tables with unique keys, the
\* location join having dropped a wage row and kept another
C2_Witness ==
    /\ Completed("merge_date")
    /\ UniqueKey(location_df, "COUNTY") /\ UniqueKey(dim_date_df, "DATE")
    /\ Len(merged["living_wage"].rows) < Len(canon["living_wage"].rows)
    /\ final["living_wage"].rows # <<>>

\* the DE rows of dim_location with exactly this county
LocationsOf(county) ==
    {i \in 1..Len(dim_location) :
        dim_location[i].state = "DE" /\ dim_location[i].COUNTY = county}

\* C3: after the location join every row is a transformed row extended by
\* the LOCATION_ID of a location row with exactly its COUNTY, a transformed
\* row whose COUNTY no location row has is in no output row, and the join
\* raises nothing.
C3_LocationJoin ==
    /\ Position = "merge_location" => pc # "failed"
    /\ Completed("merge_location") =>
           \A d \in Datasets : \A i \in 1..Len(merged[d].rows) :
               LET row == merged[d].rows[i]
               IN /\ \E k \in LocationsOf(row["COUNTY"].s) :
                         dim_location[k].LOCATION_ID = row["LOCATION_ID"].n
                  /\ \E j \in 1..Len(canon[d].rows) :
                         /\ LocationsOf(canon[d].rows[j]["COUNTY"].s) # {}
                         /\ \A c \in canon[d].columns : row[c] = canon[d].rows[j][c]

\* C3 witness: the join has run on wage rows of which one has a county of
\* the location table and one has not
C3_Witness ==
    /\ Completed("merge_location")
    /\ \E j \in 1..Len(canon["living_wage"].rows) :
           LocationsOf(canon["living_wage"].rows[j]["COUNTY"].s) = {}
    /\ merged["living_wage"].rows # <<>>

----------------------------------------------------------------------------
(* C4: the extractor *)

CategoryOf ==
    [living_wage |-> "living_wage", annual_expense |-> "expenses",
     typical_annual_salary |-> "typical_salaries"]

ExtractOf ==
    [living_wage |-> "extract_living_wage", annual_expense |-> "extract_expenses",
     typical_annual_salary |-> "extract_typical_salaries"]

\* the objects listed under the date prefix whose key contains the token
Matching(d) ==
    SelectSeq(s3, LAMBDA o : /\ StartsWith(o.Key, Prefix \o extract_date)
                             /\ Contains(o.Key, CategoryOf[d]))

\* the text a cell was read from is the field f
ReadFrom(x, f) == IF x.t = "str" THEN x.s = f ELSE IsNumeric(f) /\ ParseNumber(f) = x.n

\* the rows of df are, in order, the records of the objects objs
UnionOfRows(df, objs) ==
    LET recs == Flatten([i \in 1..Len(objs) |->
                   [r \in 1..Len(objs[i].Body.records) |->
                       [header |-> objs[i].Body.header, fields |-> objs[i].Body.records[r]]]])
    IN /\ Len(df.rows) = Len(recs)
       /\ \A i \in 1..Len(recs) : \A k \in 1..Len(recs[i].header) :
              ReadFrom(df.rows[i][recs[i].header[k]], recs[i].fields[k])

\* the extraction of d has just returned
Extracted(d) == pc # "failed" /\ Index(pc) = Index(ExtractOf[d]) + 1

\* C4 as stated: with no matching key the extractor returns the empty frame
\* (so the call raises only when S3 fails); otherwise the rows are the union.
C4_Original ==
    \A d \in Datasets :
        /\ (Matching(d) = <<>> /\ pc = "failed" /\ Position = ExtractOf[d]) =>
               Last(results).raised = "ClientError"
        /\ (Matching(d) = <<>> /\ Extracted(d)) => raw[d] = EmptyFrame
        /\ (Matching(d) # <<>> /\ Extracted(d)) => UnionOfRows(raw[d], Matching(d))

\* C4 amended: with no matching key the call raises and returns nothing;
\* otherwise the rows are the union of the rows of the matching objects.
C4_Extractor ==
    \A d \in Datasets :
        /\ Completed(ExtractOf[d]) => Matching(d) # <<>>
        /\ Extracted(d) => UnionOfRows(raw[d], Matching(d))

\* C4 witness, no key: the wage extraction raised by itself
C4_Witness ==
    /\ Matching("living_wage") = <<>>
    /\ pc = "failed" /\ Position = "extract_living_wage"
    /\ Last(results).raised \in {"KeyError", "ValueError"}

----------------------------------------------------------------------------
(* C5, C6, C7: the transformers *)

TransformOf ==
    [living_wage |-> "transform_living_wage", annual_expense |-> "transform_annual_expense",
     typical_annual_salary |-> "transform_typical_annual_salary"]

\* the source columns of each variant and the destination columns they get
Sources ==
    [living_wage |-> DOMAIN WageRename, annual_expense |-> DOMAIN ExpenseRename,
     typical_annual_salary |-> DOMAIN SalaryRename]

Destinations ==
    [living_wage |-> Range(WageRename), annual_expense |-> Range(ExpenseRename),
     typical_annual_salary |-> Range(SalaryRename)]

\* C5 as stated: whatever other columns the raw extract has, the output of
\* each variant has the destination columns and SNAPSHOT_DATE, nothing else.
C5_Original ==
    \A d \in Datasets :
        (Completed(TransformOf[d]) /\ Sources[d] \subseteq raw[d].columns) =>
            canon[d].columns = Destinations[d] \cup {"SNAPSHOT_DATE"}

\* C5 amended: that holds of the wage variant; the expense and the salary
\* variants also keep every other column of the raw extract under its name.
C5_OutputColumns ==
    \A d \in Datasets :
        (Completed(TransformOf[d]) /\ Sources[d] \subseteq raw[d].columns) =>
            canon[d].columns =
                Destinations[d] \cup {"SNAPSHOT_DATE"}
                \cup (IF d = "living_wage" THEN {} ELSE raw[d].columns \ Sources[d])

\* C5 witness: the salary variant has run on an extract with the column
\* state besides its three source columns, and its output has the column
C5_Witness ==
    /\ Completed("transform_typical_annual_salary")
    /\ Sources["typical_annual_salary"] \subseteq raw["typical_annual_salary"].columns
    /\ "state" \in raw["typical_annual_salary"].columns
    /\ "state" \in canon["typical_annual_salary"].columns

\* C6: no transformer changes the raw extract it is given.
C6_TransformersArePure ==
    [][(pc \in Range(TransformOf)) => (raw' = raw)]_vars

\* the wage_level of every row of the raw wage extract
WageLevelsOf(df) == [i \in 1..Len(df.rows) |-> df.rows[i]["wage_level"].s]

\* C7: the rows of the wage transformer's output are, in order, the rows of
\* its input whose wage_level has the substring "LIVING" in upper case: of
\* LIVING_WAGE and POVERTY_WAGE rows, one output row per LIVING_WAGE row.
C7_LivingWageFilter ==
    Completed("transform_living_wage") =>
        LET in == raw["living_wage"]
            out == canon["living_wage"]
            kept == SelectSeq(in.rows, LAMBDA row : Contains(row["wage_level"].s, "LIVING"))
            levels == WageLevelsOf(in)
        IN /\ Len(out.rows) = Len(kept)
           /\ \A i \in 1..Len(kept) :
                  out.rows[i]["COUNTY"].s = kept[i]["county"].s \o " COUNTY"
           /\ Range(levels) \subseteq {"LIVING_WAGE", "POVERTY_WAGE"} =>
                  Len(out.rows) = Cardinality({i \in 1..Len(levels) : levels[i] = "LIVING_WAGE"})
           /\ Range(levels) \subseteq {"POVERTY_WAGE", "living_wage"} => out.rows = <<>>

\* C7 witness: the wage variant has run on a LIVING_WAGE row and a
\* POVERTY_WAGE row and returned one row
C7_Witness ==
    /\ Completed("transform_living_wage")
    /\ Range(WageLevelsOf(raw["living_wage"])) = {"LIVING_WAGE", "POVERTY_WAGE"}
    /\ Len(raw["living_wage"].rows) = 2
    /\ Len(canon["living_wage"].rows) = 1

====
